---- MODULE Spec2Model ----
(***************************************************************************)
(* Model of the task manager of trpc-a2a-go as it is present in the        *)
(* sources: the mutex-guarded in-memory task map of mockTaskManager        *)
(* (package server) with its request handlers, the event producer          *)
(* goroutines its subscription handlers start, and the JSON-RPC error      *)
(* constructors of package taskmanager.                                    *)
(*                                                                         *)
(* Every handler takes m.mu for its whole body, so each handler is one     *)
(* atomic action.  The producer goroutines run outside the lock and take   *)
(* one step per select statement.                                          *)
(***************************************************************************)
EXTENDS Integers, Sequences, FiniteSets, TLC

VARIABLES
    tasks,          \* m.tasks: task ID -> stored task, or NoTask
    clock,          \* the wall clock read by getCurrentTimestamp
    cfg,            \* the configured errors, responses and SubscribeEvents
    SendResponse,   \* m.SendResponse (a pointer: the map may alias it)
    aliased,        \* TRUE when m.tasks[SendResponse.ID] is the SendResponse object
    subs,           \* the producer goroutines started so far, with their channels
    ret,            \* what the last handler call returned
    eng,            \* the task engine with a pluggable processor (tasks and units)
    cl              \* the A2A client: one StreamTask call and its SSE reader

vars == <<tasks, clock, cfg, SendResponse, aliased, subs, ret, eng, cl>>

----------------------------------------------------------------------------
(* Bounds of the model *)

MaxClock == 1       \* the clock advances at most this many seconds
MaxHistory == 1     \* ProcessTask is explored up to this history length
MaxSubs == 2        \* producer goroutines started in one run of the streams
MaxStoreSubs == 1   \* subscriptions opened in one run of the task store
MaxArtifacts == 1   \* artifacts a processor adds to one task
MaxFanoutSubs == 2  \* subscriber channels opened in one run of the engine
MaxEvents == 3      \* the processor of a task is followed for this many updates
MaxFrames == 3      \* frames of the SSE stream a server sends

----------------------------------------------------------------------------
(* Values *)

TaskIDs == {"t1", "t2"}
ParamIDs == TaskIDs \cup {""}          \* "" is the missing ID; the map accepts any key
NoTask == [none |-> TRUE]
NoError == [code |-> 0, msg |-> "nil", id |-> ""]

\* A message is its sequence of parts.
Messages == {<< >>, <<"hi">>}
TextMessages == {m \in Messages : Len(m) > 0}

TaskStateSubmitted == "submitted"
TaskStateWorking == "working"
TaskStateInputRequired == "input-required"
TaskStateCompleted == "completed"
TaskStateFailed == "failed"
TaskStateCanceled == "canceled"

TaskStates == {TaskStateSubmitted, TaskStateWorking, TaskStateInputRequired,
               TaskStateCompleted, TaskStateFailed, TaskStateCanceled}

FinalStates == {TaskStateCompleted, TaskStateFailed, TaskStateCanceled}

\* Custom JSON-RPC error codes.
ErrCodeTaskNotFound == -32001
ErrCodeTaskFinal == -32002
ErrCodePushNotificationNotConfigured == -32003

\* An error value: the JSON-RPC code it carries (0 for a plain Go error).
ErrTaskNotFound(taskID) == [code |-> ErrCodeTaskNotFound, msg |-> "Task not found", id |-> taskID]
ErrTaskFinalState(taskID) == [code |-> ErrCodeTaskFinal, msg |-> "Task is in final state", id |-> taskID]
ErrInvalidParams(why) == [code |-> -32602, msg |-> why, id |-> ""]
ErrPushNotificationNotConfigured(taskID) ==
    [code |-> ErrCodePushNotificationNotConfigured,
     msg |-> "Push Notification not configured", id |-> taskID]
ErrConfigured == [code |-> 0, msg |-> "configured", id |-> ""]

\* fmt.Errorf("push notification config not found for task %s", params.ID):
\* a plain Go error, which carries no JSON-RPC code.
ErrPushConfigNotFound(taskID) ==
    [code |-> 0, msg |-> "push notification config not found for task", id |-> taskID]

\* A TaskPushNotificationConfig: the task ID and the configuration (its URL).
NoPushConfig == [none |-> TRUE]
PushURLs == {"hook1", "hook2"}
TaskPushNotificationConfig(id, url) == [id |-> id, url |-> url]

\* taskmanager.NewTask followed by the Status assignment of the handlers:
\* a fresh task in state submitted, stamped with the current time, with no
\* history and no artifacts.
NewTask(id, now) ==
    [id |-> id, state |-> TaskStateSubmitted, ts |-> now,
     history |-> << >>, artifacts |-> << >>]

\* getCurrentTimestamp: the current time, to the second.
getCurrentTimestamp == clock

\* Events.  A status event carries the state and the Final flag; an artifact
\* event carries the artifact.
StatusEvent(id, state, final) ==
    [kind |-> "status", id |-> id, state |-> state, final |-> final]
ArtifactEvent(id, a) ==
    [kind |-> "artifact", id |-> id, state |-> a, final |-> FALSE]

\* TaskEvent.IsFinal
IsFinal(event) == event.final

IsFinalState(state) == state \in FinalStates

\* The transition table of the task state machine.
TransitionTable ==
    {<<TaskStateSubmitted, TaskStateWorking>>, <<TaskStateSubmitted, TaskStateCanceled>>,
     <<TaskStateWorking, TaskStateInputRequired>>, <<TaskStateWorking, TaskStateCompleted>>,
     <<TaskStateWorking, TaskStateFailed>>, <<TaskStateWorking, TaskStateCanceled>>,
     <<TaskStateInputRequired, TaskStateWorking>>, <<TaskStateInputRequired, TaskStateCanceled>>}

----------------------------------------------------------------------------
(* Configurations: the exported fields a test sets before it uses the mock *)

DefaultConfig ==
    [SendError |-> NoError, GetError |-> NoError, CancelError |-> NoError,
     SubscribeError |-> NoError, GetResponse |-> NoTask,
     CancelResponse |-> NoTask, SubscribeEvents |-> << >>,
     pushNotificationSetResponse |-> NoPushConfig,
     pushNotificationSetError |-> NoError,
     pushNotificationGetResponse |-> NoPushConfig,
     pushNotificationGetError |-> NoError]

\* A configured push-notification response, built by hand.
ConfiguredPush == TaskPushNotificationConfig("t2", "hook0")

\* A configured response: some task the test built by hand.
ConfiguredTask ==
    [id |-> "t2", state |-> TaskStateCompleted, ts |-> 0,
     history |-> << >>, artifacts |-> <<"a0">>]

ConfiguredEvents ==
    { <<StatusEvent("t1", TaskStateWorking, FALSE)>>,
      <<StatusEvent("t1", TaskStateCompleted, TRUE), ArtifactEvent("t1", "a0")>> }

\* Each configuration sets at most one of the fields.
Configs ==
    {DefaultConfig}
    \cup {[DefaultConfig EXCEPT ![f] = ErrConfigured] :
            f \in {"SendError", "GetError", "CancelError", "SubscribeError",
                   "pushNotificationSetError", "pushNotificationGetError"}}
    \cup {[DefaultConfig EXCEPT ![f] = ConfiguredPush] :
            f \in {"pushNotificationSetResponse", "pushNotificationGetResponse"}}
    \cup {[DefaultConfig EXCEPT ![f] = ConfiguredTask] :
            f \in {"GetResponse", "CancelResponse"}}
    \cup {[DefaultConfig EXCEPT !.SubscribeEvents = evs] : evs \in ConfiguredEvents}

----------------------------------------------------------------------------
(* Results of a handler call *)

Result(op, id, err, task, ch) ==
    [op |-> op, id |-> id, err |-> err, task |-> task, ch |-> ch,
     push |-> NoPushConfig,
     ref |-> ""]             \* the key of m.tasks whose object the returned pointer is

\* The result of a push-notification handler: a configuration or an error.
PushResult(op, id, err, config) ==
    [Result(op, id, err, NoTask, 0) EXCEPT !.push = config]

NoResult == Result("none", "", NoError, NoTask, 0)

\* The result of a handler that returns the pointer it keeps at m.tasks[key]:
\* the caller holds the stored object itself, not a copy of it.
StoredResult(op, id, key, task) ==
    [Result(op, id, NoError, task, 0) EXCEPT !.ref = key]

\* A write through the pointer stored at m.tasks[id] also changes the
\* SendResponse object when the map entry is that object.
WriteThrough(id, task) ==
    SendResponse' = IF aliased /\ SendResponse # NoTask /\ SendResponse.id = id
                    THEN task ELSE SendResponse

\* m.tasks[id] = <a new object>: the entry no longer is the SendResponse object.
Unalias(id) ==
    aliased' = IF SendResponse # NoTask /\ SendResponse.id = id THEN FALSE ELSE aliased

\* The client before StreamTask is called.
NoStream ==
    [phase |-> "idle",       \* idle, failed (StreamTask returned an error), streaming,
                             \* called (SendTasks, GetTasks or CancelTasks returned)
     resp |-> FALSE,         \* httpClient.Do returned a response
     status |-> 0,
     ctype |-> << >>,
     retErr |-> FALSE,       \* StreamTask returned a non-nil error
     retChan |-> FALSE,      \* StreamTask returned a non-nil channel
     readerStarted |-> FALSE,
     bodyClosed |-> 0,       \* how many times resp.Body.Close() ran
     frames |-> << >>,       \* the frames that have arrived on the body, in order
     ended |-> FALSE,        \* the end of the body has arrived
     end |-> "EOF",          \* and what it is: io.EOF or another read error
     next |-> 1,             \* the next frame ReadEvent returns
     pc |-> "none",          \* none, loop (the select on ctx.Done() at the top of
                             \* the for loop), read (inside ReadEvent), send, returned
     pending |-> [none |-> TRUE],
     buf |-> << >>,          \* the events in eventsChan
     recv |-> << >>,         \* the events the caller has received, in order
     closes |-> 0,           \* how many times close(eventsChan) ran
     exit |-> "none",        \* why processSSEStream returned
     ctxDone |-> FALSE,
     call |-> [none |-> TRUE]]   \* the request/response call made, with what it returned

\* The engine before any task was sent to it.
NoEngine ==
    [tasks |-> [id \in TaskIDs |-> NoTask],
     unit |-> [id \in TaskIDs |-> [phase |-> "none", outcome |-> "none",
                                   forced |-> FALSE, ctxDone |-> FALSE]],
     chans |-> << >>,
     err |-> NoError]

Init ==
    /\ tasks = [id \in TaskIDs |-> NoTask]
    /\ clock = 0
    /\ cfg \in Configs
    /\ SendResponse \in {NoTask, ConfiguredTask}
    /\ (SendResponse # NoTask => cfg = DefaultConfig)
    /\ aliased = FALSE
    /\ subs = << >>
    /\ ret = NoResult
    /\ eng = NoEngine
    /\ cl = NoStream

\* Time passes.
Tick ==
    /\ clock < MaxClock
    /\ clock' = clock + 1
    /\ UNCHANGED <<tasks, cfg, SendResponse, aliased, subs, ret, eng, cl>>

----------------------------------------------------------------------------
(* The request handlers *)

OnSendTask(id, msg) ==
    /\ UNCHANGED <<clock, cfg, subs, eng, cl>>
    /\ IF cfg.SendError # NoError THEN
           /\ ret' = Result("Send", id, cfg.SendError, NoTask, 0)
           /\ UNCHANGED <<tasks, SendResponse, aliased>>
       ELSE IF id = "" THEN
           /\ ret' = Result("Send", id, ErrInvalidParams("task ID is required"), NoTask, 0)
           /\ UNCHANGED <<tasks, SendResponse, aliased>>
       ELSE IF Len(msg) = 0 THEN
           /\ ret' = Result("Send", id,
                            ErrInvalidParams("message must have at least one part"), NoTask, 0)
           /\ UNCHANGED <<tasks, SendResponse, aliased>>
       ELSE IF SendResponse # NoTask THEN
           /\ tasks' = [tasks EXCEPT ![SendResponse.id] = SendResponse]
           /\ aliased' = TRUE
           /\ ret' = StoredResult("Send", id, SendResponse.id, SendResponse)
           /\ UNCHANGED SendResponse
       ELSE
           /\ tasks' = [tasks EXCEPT ![id] = NewTask(id, getCurrentTimestamp)]
           /\ Unalias(id)
           /\ ret' = StoredResult("Send", id, id, tasks'[id])
           /\ UNCHANGED SendResponse

OnGetTask(id) ==
    /\ UNCHANGED <<tasks, clock, cfg, SendResponse, aliased, subs, eng, cl>>
    /\ IF cfg.GetError # NoError THEN
           ret' = Result("Get", id, cfg.GetError, NoTask, 0)
       ELSE IF cfg.GetResponse # NoTask THEN
           ret' = Result("Get", id, NoError, cfg.GetResponse, 0)
       ELSE IF tasks[id] = NoTask THEN
           ret' = Result("Get", id, ErrTaskNotFound(id), NoTask, 0)
       ELSE
           ret' = StoredResult("Get", id, id, tasks[id])

OnCancelTask(id) ==
    /\ UNCHANGED <<clock, cfg, aliased, subs, eng, cl>>
    /\ IF cfg.CancelError # NoError THEN
           /\ ret' = Result("Cancel", id, cfg.CancelError, NoTask, 0)
           /\ UNCHANGED <<tasks, SendResponse>>
       ELSE IF cfg.CancelResponse # NoTask THEN
           /\ ret' = Result("Cancel", id, NoError, cfg.CancelResponse, 0)
           /\ UNCHANGED <<tasks, SendResponse>>
       ELSE IF tasks[id] = NoTask THEN
           /\ ret' = Result("Cancel", id, ErrTaskNotFound(id), NoTask, 0)
           /\ UNCHANGED <<tasks, SendResponse>>
       ELSE
           /\ tasks' = [tasks EXCEPT ![id] =
                           [@ EXCEPT !.state = TaskStateCanceled,
                                     !.ts = getCurrentTimestamp]]
           /\ WriteThrough(id, tasks'[id])
           /\ ret' = StoredResult("Cancel", id, id, tasks'[id])

\* The test helper that plays one processing step on a stored task.
ProcessTask(id, msg) ==
    /\ UNCHANGED <<clock, cfg, aliased, subs, eng, cl>>
    /\ IF tasks[id] = NoTask THEN
           /\ ret' = Result("Process", id, ErrTaskNotFound(id), NoTask, 0)
           /\ UNCHANGED <<tasks, SendResponse>>
       ELSE
           /\ Len(tasks[id].history) < MaxHistory
           /\ tasks' = [tasks EXCEPT ![id] =
                           [@ EXCEPT !.state = TaskStateWorking,
                                     !.ts = getCurrentTimestamp,
                                     !.history = Append(@, msg)]]
           /\ WriteThrough(id, tasks'[id])
           /\ ret' = StoredResult("Process", id, id, tasks'[id])

----------------------------------------------------------------------------
(* Subscriptions: the handler creates the channel and starts a producer     *)
(* goroutine; the goroutine sends the events outside the lock.              *)

\* The events of the goroutine OnSendTaskSubscribe starts when none is configured.
DefaultSendSubscribeEvents(id) ==
    <<StatusEvent(id, TaskStateWorking, FALSE), StatusEvent(id, TaskStateCompleted, TRUE)>>

\* The event of the goroutine OnResubscribe starts when none is configured.
DefaultResubscribeEvents(id) ==
    <<StatusEvent(id, TaskStateCompleted, TRUE)>>

\* NewProducer with a goroutine that has sent its first event before the
\* channel was there to take it.
NewProducerLate(op, id, events) ==
    [op |-> op, id |-> id,
     configured |-> Len(cfg.SubscribeEvents) > 0,
     events |-> events,
     cap |-> Len(cfg.SubscribeEvents) + 1,
     pos |-> 2,
     buf |-> << >>,
     recv |-> << >>,
     closes |-> 0,
     returned |-> FALSE,
     ctxDone |-> FALSE]

\* make(chan TaskEvent, len(m.SubscribeEvents)+1) and the goroutine on it.
\* configured: the goroutine ranges over m.SubscribeEvents and closes at the
\* first final event or at the end of the range; otherwise it sends its own
\* events and closes after the last.
NewProducer(op, id, events) ==
    [op |-> op, id |-> id,
     configured |-> Len(cfg.SubscribeEvents) > 0,
     events |-> events,
     cap |-> Len(cfg.SubscribeEvents) + 1,
     pos |-> 1,              \* the next event to send
     buf |-> << >>,          \* the events in the channel
     recv |-> << >>,         \* the events the caller has received, in order
     closes |-> 0,           \* how many times close(eventCh) ran
     returned |-> FALSE,     \* the goroutine has returned
     ctxDone |-> FALSE]      \* the caller's context is done

OnSendTaskSubscribe(id, msg) ==
    /\ UNCHANGED <<clock, cfg, SendResponse, eng, cl>>
    /\ IF cfg.SubscribeError # NoError THEN
           /\ ret' = Result("SendSubscribe", id, cfg.SubscribeError, NoTask, 0)
           /\ UNCHANGED <<tasks, aliased, subs>>
       ELSE
           /\ tasks' = [tasks EXCEPT ![id] = NewTask(id, getCurrentTimestamp)]
           /\ Unalias(id)
           /\ subs' = Append(subs,
                  NewProducer("SendSubscribe", id,
                      IF Len(cfg.SubscribeEvents) > 0 THEN cfg.SubscribeEvents
                      ELSE DefaultSendSubscribeEvents(id)))
           /\ ret' = Result("SendSubscribe", id, NoError, NoTask, Len(subs'))

\* OnResubscribe without the check that the task exists.
OnResubscribeNoCheck(id) ==
    /\ UNCHANGED <<tasks, clock, cfg, SendResponse, aliased, eng, cl>>
    /\ IF cfg.SubscribeError # NoError THEN
           /\ ret' = Result("Resubscribe", id, cfg.SubscribeError, NoTask, 0)
           /\ UNCHANGED subs
       ELSE
           /\ subs' = Append(subs,
                  NewProducer("Resubscribe", id,
                      IF Len(cfg.SubscribeEvents) > 0 THEN cfg.SubscribeEvents
                      ELSE DefaultResubscribeEvents(id)))
           /\ ret' = Result("Resubscribe", id, NoError, NoTask, Len(subs'))

OnResubscribe(id) ==
    /\ UNCHANGED <<tasks, clock, cfg, SendResponse, aliased, eng, cl>>
    /\ IF cfg.SubscribeError # NoError THEN
           /\ ret' = Result("Resubscribe", id, cfg.SubscribeError, NoTask, 0)
           /\ UNCHANGED subs
       ELSE IF tasks[id] = NoTask THEN
           /\ ret' = Result("Resubscribe", id, ErrTaskNotFound(id), NoTask, 0)
           /\ UNCHANGED subs
       ELSE
           /\ subs' = Append(subs,
                  NewProducer("Resubscribe", id,
                      IF Len(cfg.SubscribeEvents) > 0 THEN cfg.SubscribeEvents
                      ELSE DefaultResubscribeEvents(id)))
           /\ ret' = Result("Resubscribe", id, NoError, NoTask, Len(subs'))

\* A send that goes on after a final event and closes only after the last event.
ProducerSendPastFinal(i) ==
    LET p == subs[i]
        event == p.events[p.pos]
        last == p.pos = Len(p.events)
    IN  /\ ~p.returned
        /\ p.pos <= Len(p.events)
        /\ Len(p.buf) < p.cap
        /\ subs' = [subs EXCEPT ![i] =
                [p EXCEPT !.buf = Append(p.buf, event),
                          !.pos = p.pos + 1,
                          !.closes = IF last THEN p.closes + 1 ELSE p.closes,
                          !.returned = last]]
        /\ UNCHANGED <<tasks, clock, cfg, SendResponse, aliased, ret, eng, cl>>

\* One select of the goroutine: the branch that sends the next event.
ProducerSend(i) ==
    LET p == subs[i]
        event == p.events[p.pos]
        last == IF p.configured THEN IsFinal(event) ELSE p.pos = Len(p.events)
    IN  /\ ~p.returned
        /\ p.pos <= Len(p.events)
        /\ Len(p.buf) < p.cap
        /\ subs' = [subs EXCEPT ![i] =
                [p EXCEPT !.buf = Append(p.buf, event),
                          !.pos = p.pos + 1,
                          !.closes = IF last THEN p.closes + 1 ELSE p.closes,
                          !.returned = last]]
        /\ UNCHANGED <<tasks, clock, cfg, SendResponse, aliased, ret, eng, cl>>

\* One select of the goroutine: the branch that finds the context done.
ProducerCtxDone(i) ==
    LET p == subs[i]
    IN  /\ ~p.returned
        /\ p.pos <= Len(p.events)
        /\ p.ctxDone
        /\ subs' = [subs EXCEPT ![i] =
                [p EXCEPT !.closes = p.closes + 1, !.returned = TRUE]]
        /\ UNCHANGED <<tasks, clock, cfg, SendResponse, aliased, ret, eng, cl>>

\* The range over m.SubscribeEvents ended without a final event.
ProducerExhausted(i) ==
    LET p == subs[i]
    IN  /\ ~p.returned
        /\ p.pos > Len(p.events)
        /\ subs' = [subs EXCEPT ![i] =
                [p EXCEPT !.closes = p.closes + 1, !.returned = TRUE]]
        /\ UNCHANGED <<tasks, clock, cfg, SendResponse, aliased, ret, eng, cl>>

\* The caller of the handler cancels its context.
CancelContext(i) ==
    /\ ~subs[i].ctxDone
    /\ subs' = [subs EXCEPT ![i].ctxDone = TRUE]
    /\ UNCHANGED <<tasks, clock, cfg, SendResponse, aliased, ret, eng, cl>>

\* The caller receives one event from the channel.
Receive(i) ==
    /\ Len(subs[i].buf) > 0
    /\ subs' = [subs EXCEPT ![i].recv = Append(@, Head(subs[i].buf)),
                             ![i].buf = Tail(@)]
    /\ UNCHANGED <<tasks, clock, cfg, SendResponse, aliased, ret, eng, cl>>

\* OnPushNotificationSet: the configured error, the configured response, or
\* an echo of the parameters.  Nothing is stored.
OnPushNotificationSet(id, url) ==
    /\ UNCHANGED <<tasks, clock, cfg, SendResponse, aliased, subs, eng, cl>>
    /\ IF cfg.pushNotificationSetError # NoError THEN
           ret' = PushResult("PushSet", id, cfg.pushNotificationSetError, NoPushConfig)
       ELSE IF cfg.pushNotificationSetResponse # NoPushConfig THEN
           ret' = PushResult("PushSet", id, NoError, cfg.pushNotificationSetResponse)
       ELSE
           ret' = PushResult("PushSet", id, NoError, TaskPushNotificationConfig(id, url))

\* OnPushNotificationGet: the configured error, the configured response, or
\* the default "not found" error, whatever was set before.
OnPushNotificationGet(id) ==
    /\ UNCHANGED <<tasks, clock, cfg, SendResponse, aliased, subs, eng, cl>>
    /\ IF cfg.pushNotificationGetError # NoError THEN
           ret' = PushResult("PushGet", id, cfg.pushNotificationGetError, NoPushConfig)
       ELSE IF cfg.pushNotificationGetResponse # NoPushConfig THEN
           ret' = PushResult("PushGet", id, NoError, cfg.pushNotificationGetResponse)
       ELSE
           ret' = PushResult("PushGet", id, ErrPushConfigNotFound(id), NoPushConfig)

\* The handlers, called with any parameters.  OnSendTask is the one handler
\* that looks at the ID before it uses it as a key.
Handlers ==
    \/ \E id \in ParamIDs, msg \in Messages : OnSendTask(id, msg)
    \/ \E id \in TaskIDs : OnGetTask(id)
    \/ \E id \in TaskIDs : OnCancelTask(id)
    \/ \E id \in TaskIDs, msg \in TextMessages : ProcessTask(id, msg)

\* The push-notification handlers.  They read and write nothing of the task
\* store, so they are explored on their own.
PushHandlers ==
    \/ \E id \in TaskIDs, url \in PushURLs : OnPushNotificationSet(id, url)
    \/ \E id \in TaskIDs : OnPushNotificationGet(id)

\* The subscription handlers, while fewer than n producers were started.
Subscriptions(n) ==
    \/ \E id \in TaskIDs, msg \in TextMessages : Len(subs) < n /\ OnSendTaskSubscribe(id, msg)
    \/ \E id \in TaskIDs : Len(subs) < n /\ OnResubscribe(id)

\* The producer goroutines and the callers that hold their channels.
Producers ==
    \/ \E i \in 1..Len(subs) : ProducerSend(i)
    \/ \E i \in 1..Len(subs) : ProducerCtxDone(i)
    \/ \E i \in 1..Len(subs) : ProducerExhausted(i)
    \/ \E i \in 1..Len(subs) : CancelContext(i)
    \/ \E i \in 1..Len(subs) : Receive(i)

\* The task store: the handlers under the lock.  The producer goroutines
\* read and write nothing but their own channel, so they are left out here.
Next ==
    \/ Tick
    \/ Handlers
    \/ Subscriptions(MaxStoreSubs)

Spec == Init /\ [][Next]_vars

NextPush ==
    \/ Tick
    \/ PushHandlers

SpecPush == Init /\ [][NextPush]_vars

\* The subscription streams: the handlers that start producers, the producer
\* goroutines, and the callers that receive and cancel.
NextStream ==
    \/ Subscriptions(MaxSubs)
    \/ Producers

SpecStream == Init /\ [][NextStream]_vars

----------------------------------------------------------------------------
(* The claims *)

\* No error and no response is configured.
Unconfigured == cfg = DefaultConfig /\ SendResponse = NoTask

Stored(id) == tasks[id] # NoTask
StoredFinal(id) == Stored(id) /\ IsFinalState(tasks[id].state)
StoredNonFinal(id) == Stored(id) /\ ~IsFinalState(tasks[id].state)

\* C1: once a task's state is completed, failed or canceled, no step changes
\* its status (state and timestamp) or its artifacts.
C1_FinalStateImmutable ==
    [][\A id \in TaskIDs :
         (Unconfigured /\ StoredFinal(id)) =>
             /\ tasks'[id] # NoTask
             /\ tasks'[id].state = tasks[id].state
             /\ tasks'[id].ts = tasks[id].ts
             /\ tasks'[id].artifacts = tasks[id].artifacts]_vars

\* C2: every change of a stored task's state is an edge of the transition table.
C2_OnlyTableEdges ==
    [][\A id \in TaskIDs :
         (Unconfigured /\ Stored(id) /\ tasks'[id] # NoTask
            /\ tasks'[id].state # tasks[id].state) =>
             <<tasks[id].state, tasks'[id].state>> \in TransitionTable]_vars

\* C3: a transition that is not in the table, attempted by Cancel (to canceled)
\* or by a processing step (to working), is rejected with TaskFinalState and
\* leaves the stored task as it was.
C3_IllegalTransitionRejected ==
    [][\A id \in TaskIDs, msg \in TextMessages :
         /\ (Unconfigured /\ Stored(id) /\ OnCancelTask(id)
               /\ <<tasks[id].state, TaskStateCanceled>> \notin TransitionTable) =>
                (ret'.err = ErrTaskFinalState(id) /\ tasks' = tasks)
         /\ (Unconfigured /\ Stored(id) /\ ProcessTask(id, msg)
               /\ <<tasks[id].state, TaskStateWorking>> \notin TransitionTable) =>
                (ret'.err = ErrTaskFinalState(id) /\ tasks' = tasks)]_vars

\* C4: Cancel on a stored task in a final state returns the TaskFinalState
\* error (code -32002) and leaves the task's state and timestamp unchanged.
C4_CancelFinalRejected ==
    [][\A id \in TaskIDs :
         (cfg = DefaultConfig /\ StoredFinal(id) /\ OnCancelTask(id)) =>
             /\ ret'.err.code = ErrCodeTaskFinal
             /\ ret'.task = NoTask
             /\ tasks'[id].state = tasks[id].state
             /\ tasks'[id].ts = tasks[id].ts]_vars

\* C5: Cancel on a stored non-final task sets it to canceled and returns the
\* canceled task, and every processing step attempted on the canceled task
\* afterwards fails with TaskFinalState and changes nothing.
C5_CancelThenUpdatesRejected ==
    [][\A id \in TaskIDs, msg \in TextMessages :
         /\ (Unconfigured /\ StoredNonFinal(id) /\ OnCancelTask(id)) =>
                /\ tasks'[id].state = TaskStateCanceled
                /\ ret'.err = NoError
                /\ ret'.task = tasks'[id]
         /\ (Unconfigured /\ Stored(id) /\ tasks[id].state = TaskStateCanceled
               /\ ProcessTask(id, msg)) =>
                /\ ret'.err.code = ErrCodeTaskFinal
                /\ tasks'[id] = tasks[id]]_vars

\* C6 as amended: with no error and no response configured for the handler,
\* Get, Cancel and Resubscribe on an ID that is not in the store each fail
\* with TaskNotFound (code -32001) for that ID, return no task and no channel,
\* and leave the store and the producers as they were.
C6_AbsentIsTaskNotFound ==
    [][\A id \in TaskIDs :
         LET NotFound == /\ ret'.err = ErrTaskNotFound(id)
                         /\ ret'.err.code = -32001
                         /\ ret'.task = NoTask
                         /\ ret'.ch = 0
                         /\ tasks' = tasks
                         /\ subs' = subs
         IN  /\ (~Stored(id) /\ cfg.GetError = NoError /\ cfg.GetResponse = NoTask
                   /\ OnGetTask(id)) => NotFound
             /\ (~Stored(id) /\ cfg.CancelError = NoError /\ cfg.CancelResponse = NoTask
                   /\ OnCancelTask(id)) => NotFound
             /\ (~Stored(id) /\ cfg.SubscribeError = NoError
                   /\ OnResubscribe(id)) => NotFound]_vars

\* C6 as claimed: the same for every configuration of the manager.
C6_AbsentIsTaskNotFoundAlways ==
    [][\A id \in TaskIDs :
         LET NotFound == /\ ret'.err.code = ErrCodeTaskNotFound
                         /\ ret'.task = NoTask
                         /\ ret'.ch = 0
                         /\ tasks' = tasks
         IN  /\ (~Stored(id) /\ OnGetTask(id)) => NotFound
             /\ (~Stored(id) /\ OnCancelTask(id)) => NotFound
             /\ (~Stored(id) /\ OnResubscribe(id)) => NotFound]_vars

\* C6 happens: a Cancel of an absent ID was answered TaskNotFound while
\* another task is in the store.
C6_Witness ==
    /\ ret.op = "Cancel"
    /\ ret.id \in TaskIDs
    /\ ret.err = ErrTaskNotFound(ret.id)
    /\ ~Stored(ret.id)
    /\ \E other \in TaskIDs : Stored(other)

\* C7: Send with an ID that is not in the store creates the task in state
\* submitted, stores it and returns a snapshot in state submitted: a value of
\* its own, which no later step on the stored task can change.  Stated for
\* the manager with nothing configured, a non-empty ID and a message with a
\* part, the case in which Send reaches the creation of the task.
C7_SendNewReturnsSnapshot ==
    [][\A id \in TaskIDs, msg \in TextMessages :
         (~Stored(id) /\ Unconfigured /\ OnSendTask(id, msg)) =>
             /\ tasks'[id] # NoTask
             /\ tasks'[id].state = TaskStateSubmitted
             /\ ret'.err = NoError
             /\ ret'.task.state = TaskStateSubmitted
             /\ ret'.ref = ""]_vars

\* C8: Send with the ID of a stored non-final task appends the message to the
\* task's history and returns that task, with its state and artifacts kept.
C8_SendExistingResumes ==
    [][\A id \in TaskIDs, msg \in TextMessages :
         (Unconfigured /\ StoredNonFinal(id) /\ OnSendTask(id, msg)) =>
             /\ tasks'[id].state = tasks[id].state
             /\ tasks'[id].history = Append(tasks[id].history, msg)
             /\ tasks'[id].artifacts = tasks[id].artifacts
             /\ ret'.err = NoError
             /\ ret'.task = tasks'[id]]_vars

\* The processing units started for a task: the goroutines of OnSendTaskSubscribe.
Invocations(id) ==
    Cardinality({i \in 1..Len(subs) : subs[i].op = "SendSubscribe" /\ subs[i].id = id})

\* C9: the processing unit is started exactly once for a task that was
\* created, whatever calls were repeated with its ID, and never for an ID
\* that was not.
C9_ProcessorOncePerTask ==
    \A id \in TaskIDs :
        /\ Stored(id) => Invocations(id) = 1
        /\ ~Stored(id) => Invocations(id) = 0

\* What the goroutine of producer i has sent so far, in the order it sent it.
Emitted(i) == SubSeq(subs[i].events, 1, subs[i].pos - 1)

\* What went through the channel of producer i: received, then still buffered.
Delivered(i) == subs[i].recv \o subs[i].buf

\* C11: the channel of an OnSendTaskSubscribe call is there before its
\* goroutine sends: what the caller received and what waits in the channel is
\* what the goroutine sent, from its first event on, in order.
C11_NoEventMissed ==
    \A i \in 1..Len(subs) :
        subs[i].op = "SendSubscribe" => Delivered(i) = Emitted(i)

\* C11 happens: a caller has received the first event of its goroutine while
\* another subscription to the same task was started after it.
C11_Witness ==
    \E i \in 1..Len(subs) :
        /\ subs[i].op = "SendSubscribe"
        /\ Len(subs[i].recv) >= 1
        /\ subs[i].recv[1] = subs[i].events[1]
        /\ \E j \in (i+1)..Len(subs) : subs[j].id = subs[i].id

\* C12: Resubscribe to a stored task in a final state returns a channel whose
\* goroutine sends exactly one event, the status event that carries the stored
\* final state with Final = true, and then closes the channel.
C12_ResubscribeFinalOneEvent ==
    [][\A id \in TaskIDs :
         (Unconfigured /\ StoredFinal(id) /\ OnResubscribe(id)) =>
             /\ ret'.err = NoError
             /\ Len(subs') = Len(subs) + 1
             /\ subs'[Len(subs')].events
                    = <<StatusEvent(id, tasks[id].state, TRUE)>>]_vars

\* C13: the channel of a Resubscribe to a stored non-final task is one of the
\* task's live subscribers: an event enters it only in a step in which the
\* task's processing unit emits that very event, so it gets the events emitted
\* after the call, in their order, and none that was emitted before.
C13_ResubscribeJoinsLive ==
    [][\A j \in 1..Len(subs) :
         (/\ Unconfigured
          /\ subs[j].op = "Resubscribe"
          /\ StoredNonFinal(subs[j].id)
          /\ Len(subs'[j].buf) > Len(subs[j].buf)) =>
             \E i \in 1..Len(subs) :
                 /\ subs[i].op = "SendSubscribe"
                 /\ subs[i].id = subs[j].id
                 /\ subs'[i].pos = subs[i].pos + 1
                 /\ subs[i].events[subs[i].pos]
                        = subs'[j].buf[Len(subs'[j].buf)]]_vars

\* C15: a caller that never reads, or whose context is done, never blocks the
\* goroutine that sends to it: as long as the goroutine has not returned, one
\* of its steps (send the next event, see the context done, finish the range)
\* can be taken.
C15_SlowSubscriberNeverBlocks ==
    \A i \in 1..Len(subs) :
        (Unconfigured /\ ~subs[i].returned) =>
            ENABLED (ProducerSend(i) \/ ProducerCtxDone(i) \/ ProducerExhausted(i))

\* C16: in the step in which a status event with Final = true enters a channel
\* of a task, every channel of that task is closed and its goroutine is over,
\* the event is the last one of each of these channels, and the task is still
\* stored.
C16_FinalClosesEveryChannel ==
    [][\A i \in 1..Len(subs) :
         (/\ Unconfigured
          /\ Len(subs'[i].buf) > Len(subs[i].buf)
          /\ IsFinal(subs'[i].buf[Len(subs'[i].buf)])) =>
             /\ \A j \in 1..Len(subs) :
                    subs[j].id = subs[i].id =>
                        /\ subs'[j].closes = 1
                        /\ subs'[j].returned
                        /\ \A k \in 1..(Len(subs'[j].buf) - 1) : ~IsFinal(subs'[j].buf[k])
             /\ tasks'[subs[i].id] # NoTask]_vars

\* C23: push-notification configuration is a keyed store.  With the default
\* mock, OnPushNotificationGet called before any other handler fails with
\* the PushNotificationNotConfigured error (code -32003), and called right
\* after a successful OnPushNotificationSet for the same ID it returns the
\* configuration that was set.
C23_PushConfigKeyedStore ==
    [][\A id \in TaskIDs :
         (Unconfigured /\ OnPushNotificationGet(id)) =>
             /\ ret = NoResult =>
                    /\ ret'.err = ErrPushNotificationNotConfigured(id)
                    /\ ret'.push = NoPushConfig
             /\ (ret.op = "PushSet" /\ ret.err = NoError /\ ret.id = id) =>
                    /\ ret'.err = NoError
                    /\ ret'.push = ret.push]_vars

\* s is a prefix of t.
IsPrefix(s, t) == Len(s) <= Len(t) /\ SubSeq(t, 1, Len(s)) = s

\* C27: the channel of a producer goroutine is closed once, when the
\* goroutine returns and on each of its returns (context done, final event
\* sent, events exhausted), and nothing enters it after that; what went
\* through the channel is a prefix of the events of the goroutine (the
\* configured SubscribeEvents when there are any) that has no event after
\* its first final one, and it is the whole of that when the goroutine
\* returned without seeing the context done.
C27_ClosedOnceAfterPrefix ==
    [][\A i \in 1..Len(subs') :
         LET p == subs'[i]
             out == p.recv \o p.buf
         IN  /\ p.closes <= 1
             /\ (p.closes = 1) <=> p.returned
             /\ p.configured => p.events = cfg.SubscribeEvents
             /\ IsPrefix(out, p.events)
             /\ \A k \in 1..(Len(out) - 1) : ~IsFinal(out[k])
             /\ (p.returned /\ ~p.ctxDone) =>
                    \/ Len(out) >= 1 /\ IsFinal(out[Len(out)])
                    \/ out = p.events
             /\ (i <= Len(subs) /\ subs[i].closes = 1) => out = Delivered(i)]_vars

\* C27 happens: with a final event followed by another one configured, the
\* caller has received the final event and nothing else, and the channel is
\* closed, the context not being done.
C27_Witness ==
    \E i \in 1..Len(subs) :
        /\ subs[i].configured
        /\ Len(subs[i].events) = 2
        /\ IsFinal(subs[i].events[1])
        /\ subs[i].recv = <<subs[i].events[1]>>
        /\ subs[i].buf = << >>
        /\ subs[i].closes = 1
        /\ ~subs[i].ctxDone

\* C28: no send of a producer goroutine can block: the capacity of its
\* channel is at least the number of events it sends, so, with nobody
\* receiving and the context never done, a goroutine that has not returned
\* can always take its next step (send the next event or finish the range),
\* and so it gets to close its channel.
C28_CapacityCoversEvents ==
    \A i \in 1..Len(subs) :
        /\ subs[i].cap >= Len(subs[i].events)
        /\ ~subs[i].returned => ENABLED (ProducerSend(i) \/ ProducerExhausted(i))

\* C24: History and Artifacts are append-only and a task is never deleted:
\* in every step of the store (Send, a second Send for the same ID,
\* SendSubscribe, Cancel, ProcessTask) a task that exists keeps existing and
\* its History and Artifacts before the step are prefixes of those after it.
C24_AppendOnlyNeverDeleted ==
    [][\A id \in TaskIDs :
         tasks[id] # NoTask =>
             /\ tasks'[id] # NoTask
             /\ IsPrefix(tasks[id].history, tasks'[id].history)
             /\ IsPrefix(tasks[id].artifacts, tasks'[id].artifacts)]_vars

----------------------------------------------------------------------------
(* The task engine with a pluggable processor (MemoryTaskManager and        *)
(* TaskProcessor of the README).  Its code is not part of the sources at    *)
(* hand; the engine is modelled from its specification: one unit of work    *)
(* per created task, a handle whose operations go through one routine that  *)
(* checks the transition table, and a wrapper that turns a returned error   *)
(* or a panic of the processor into the state failed.                       *)

mockVars == <<tasks, clock, cfg, SendResponse, aliased, subs, ret, cl>>

Outcomes == {"nil", "error", "panic"}

EngineStored(id) == eng.tasks[id] # NoTask

\* The capacity of a subscriber channel ("buffered, fixed small capacity").
SubscriberCap == 2

\* A subscriber channel of the fan-out set of task id.
NewSubscriber(id) ==
    [id |-> id,
     buf |-> << >>,          \* the events in the channel
     recv |-> << >>,         \* the events the subscriber has received, in order
     seen |-> 0,             \* how many updates the task had since the channel was opened
     closes |-> 0,           \* how many times the channel was closed
     live |-> TRUE,          \* the channel is in the fan-out set
     ctxDone |-> FALSE]      \* the subscriber's context is done

\* The delivery that puts the event in front of what the channel holds.
SubscriberDeliverFront(c, event) ==
    IF c.ctxDone THEN
        [c EXCEPT !.seen = @ + 1, !.live = FALSE, !.closes = @ + 1]
    ELSE IF Len(c.buf) >= SubscriberCap THEN
        [c EXCEPT !.seen = @ + 1,
                  !.live = ~event.final,
                  !.closes = IF event.final THEN @ + 1 ELSE @]
    ELSE
        [c EXCEPT !.seen = @ + 1,
                  !.buf = <<event>> \o @,
                  !.live = ~event.final,
                  !.closes = IF event.final THEN @ + 1 ELSE @]

\* The send of one event to one live subscriber, non-blocking and aware of
\* cancellation: a subscriber whose context is done is dropped, a full buffer
\* is passed over, and a final event closes the channel after its delivery.
SubscriberDeliver(c, event) ==
    IF c.ctxDone THEN
        [c EXCEPT !.seen = @ + 1, !.live = FALSE, !.closes = @ + 1]
    ELSE IF Len(c.buf) >= SubscriberCap THEN
        [c EXCEPT !.seen = @ + 1,
                  !.live = ~event.final,
                  !.closes = IF event.final THEN @ + 1 ELSE @]
    ELSE
        [c EXCEPT !.seen = @ + 1,
                  !.buf = Append(@, event),
                  !.live = ~event.final,
                  !.closes = IF event.final THEN @ + 1 ELSE @]

\* The broadcast of one event of task id to the task's live subscribers.
Broadcast(id, event) ==
    [k \in 1..Len(eng.chans) |->
        IF eng.chans[k].id # id THEN eng.chans[k]
        ELSE IF eng.chans[k].live THEN SubscriberDeliver(eng.chans[k], event)
        ELSE [eng.chans[k] EXCEPT !.seen = @ + 1]]

\* The one routine every status mutation goes through: the table is checked,
\* the record is updated and the status event is broadcast.
Transition(id, to) ==
    IF <<eng.tasks[id].state, to>> \in TransitionTable
    THEN eng' = [eng EXCEPT !.tasks[id].state = to, !.err = NoError,
                            !.chans = Broadcast(id, StatusEvent(id, to, IsFinalState(to)))]
    ELSE eng' = [eng EXCEPT !.err = ErrTaskFinalState(id)]

\* Send: a new ID creates the task and starts its unit; an ID of a non-final
\* task resumes it (the message is appended, no unit is started).
EngineSend(id, msg) ==
    /\ UNCHANGED mockVars
    /\ IF ~EngineStored(id) THEN
           eng' = [eng EXCEPT
                     !.tasks[id] = [id |-> id, state |-> TaskStateSubmitted, ts |-> 0,
                                    history |-> <<msg>>, artifacts |-> << >>],
                     !.unit[id].phase = "running",
                     !.err = NoError]
       ELSE IF IsFinalState(eng.tasks[id].state) THEN
           eng' = [eng EXCEPT !.err = ErrTaskFinalState(id)]
       ELSE
           /\ Len(eng.tasks[id].history) <= MaxHistory
           /\ eng' = [eng EXCEPT !.tasks[id].history = Append(@, msg), !.err = NoError]

\* Cancel: to canceled through the transition routine, and the unit's context is done.
EngineCancel(id) ==
    /\ UNCHANGED mockVars
    /\ IF ~EngineStored(id) THEN
           eng' = [eng EXCEPT !.err = ErrTaskNotFound(id)]
       ELSE IF IsFinalState(eng.tasks[id].state) THEN
           eng' = [eng EXCEPT !.err = ErrTaskFinalState(id)]
       ELSE
           eng' = [eng EXCEPT !.tasks[id].state = TaskStateCanceled,
                              !.unit[id].ctxDone = TRUE,
                              !.chans = Broadcast(id, StatusEvent(id, TaskStateCanceled, TRUE)),
                              !.err = NoError]

\* handle.UpdateStatus, called by the running processor.
UpdateStatus(id, state) ==
    /\ UNCHANGED mockVars
    /\ eng.unit[id].phase = "running"
    /\ Transition(id, state)

\* handle.AddArtifact, called by the running processor.
AddArtifact(id) ==
    /\ UNCHANGED mockVars
    /\ eng.unit[id].phase = "running"
    /\ IF IsFinalState(eng.tasks[id].state) THEN
           eng' = [eng EXCEPT !.err = ErrTaskFinalState(id)]
       ELSE
           /\ Len(eng.tasks[id].artifacts) < MaxArtifacts
           /\ eng' = [eng EXCEPT !.tasks[id].artifacts = Append(@, "a0"),
                                  !.chans = Broadcast(id, ArtifactEvent(id, "a0")),
                                  !.err = NoError]

\* The processor returns nil, returns an error, or panics.
ProcessorEnds(id, outcome) ==
    /\ UNCHANGED mockVars
    /\ eng.unit[id].phase = "running"
    /\ eng' = [eng EXCEPT !.unit[id].phase = "ended", !.unit[id].outcome = outcome]

\* The wrapper of the unit that forgets to force the state failed.
EngineFinishNoForce(id) ==
    /\ UNCHANGED mockVars
    /\ eng.unit[id].phase = "ended"
    /\ eng' = [eng EXCEPT !.unit[id].phase = "done"]

\* The wrapper of the unit, after the processor ended.  A task is never left
\* in a non-final state once its unit is over: an error or a (recovered)
\* panic with the task not yet final forces the state failed; after a nil
\* return with the task not yet final the task is made final as well (the
\* specification names no state for that case: any final state).  A final
\* state that was reached is kept.
EngineFinish(id) ==
    /\ UNCHANGED mockVars
    /\ eng.unit[id].phase = "ended"
    /\ IF IsFinalState(eng.tasks[id].state) THEN
           eng' = [eng EXCEPT !.unit[id].phase = "done"]
       ELSE
           \E to \in FinalStates :
               /\ eng.unit[id].outcome \in {"error", "panic"} => to = TaskStateFailed
               /\ eng' = [eng EXCEPT
                             !.tasks[id].state = to,
                             !.unit[id].phase = "done",
                             !.unit[id].forced = TRUE,
                             !.chans = Broadcast(id, StatusEvent(id, to, TRUE))]

InitEngine == Init /\ cfg = DefaultConfig /\ SendResponse = NoTask

NextEngine ==
    \/ \E id \in TaskIDs, msg \in TextMessages : EngineSend(id, msg)
    \/ \E id \in TaskIDs : EngineCancel(id)
    \/ \E id \in TaskIDs, state \in TaskStates : UpdateStatus(id, state)
    \/ \E id \in TaskIDs : AddArtifact(id)
    \/ \E id \in TaskIDs, outcome \in Outcomes : ProcessorEnds(id, outcome)
    \/ \E id \in TaskIDs : EngineFinish(id)

SpecEngine == InitEngine /\ [][NextEngine]_vars

\* C10: once the unit of a task is over, whether the processor returned nil,
\* returned an error or panicked, the task is in a final state.  When the
\* wrapper finds the task final, that state is kept; when it finds it
\* non-final after an error or a panic, the state becomes failed; when it
\* finds it non-final after a nil return, the state becomes final.  A final
\* state is kept from then on.
C10_ProcessorFailureIsFinal ==
    [][\A id \in TaskIDs :
         /\ eng'.unit[id].phase = "done" => IsFinalState(eng'.tasks[id].state)
         /\ (eng.unit[id].phase = "ended" /\ eng'.unit[id].phase = "done") =>
                IF IsFinalState(eng.tasks[id].state)
                THEN eng'.tasks[id].state = eng.tasks[id].state
                ELSE IF eng.unit[id].outcome \in {"error", "panic"}
                THEN eng'.tasks[id].state = TaskStateFailed
                ELSE eng.unit[id].outcome = "nil" /\ IsFinalState(eng'.tasks[id].state)
         /\ (eng.unit[id].phase = "done" /\ IsFinalState(eng.tasks[id].state)) =>
                eng'.tasks[id].state = eng.tasks[id].state]_vars

\* C10 happens: a processor returned nil while its task was waiting for
\* input, with an artifact already added, and the task was made final; the
\* processor of the other task panicked before it had updated anything, and
\* that task is failed.
C10_Witness ==
    \E id \in TaskIDs, other \in TaskIDs :
        /\ id # other
        /\ eng.unit[id].phase = "done"
        /\ eng.unit[id].outcome = "nil"
        /\ eng.unit[id].forced
        /\ IsFinalState(eng.tasks[id].state)
        /\ Len(eng.tasks[id].artifacts) > 0
        /\ eng.unit[other].phase = "done"
        /\ eng.unit[other].outcome = "panic"
        /\ eng.unit[other].forced
        /\ eng.tasks[other].state = TaskStateFailed

----------------------------------------------------------------------------
(* The subscriber fan-out of the engine: one channel per subscriber, and    *)
(* the broadcast of every update of the handle to the task's live channels. *)

\* SendSubscribe: Send, with the caller's channel in the fan-out set before
\* the unit of the task can emit.
EngineSendSubscribe(id, msg) ==
    /\ UNCHANGED mockVars
    /\ IF ~EngineStored(id) THEN
           eng' = [eng EXCEPT
                     !.tasks[id] = [id |-> id, state |-> TaskStateSubmitted, ts |-> 0,
                                    history |-> <<msg>>, artifacts |-> << >>],
                     !.unit[id].phase = "running",
                     !.chans = Append(@, NewSubscriber(id)),
                     !.err = NoError]
       ELSE IF IsFinalState(eng.tasks[id].state) THEN
           eng' = [eng EXCEPT !.err = ErrTaskFinalState(id)]
       ELSE
           /\ Len(eng.tasks[id].history) <= MaxHistory
           /\ eng' = [eng EXCEPT !.tasks[id].history = Append(@, msg),
                                  !.chans = Append(@, NewSubscriber(id)),
                                  !.err = NoError]

\* Resubscribe: TaskNotFound for an absent task; for a final task a channel
\* with one status event of the final state, closed; for a task in flight a
\* channel that joins the fan-out set.
EngineResubscribe(id) ==
    /\ UNCHANGED mockVars
    /\ IF ~EngineStored(id) THEN
           eng' = [eng EXCEPT !.err = ErrTaskNotFound(id)]
       ELSE IF IsFinalState(eng.tasks[id].state) THEN
           eng' = [eng EXCEPT
                     !.chans = Append(@,
                         [NewSubscriber(id) EXCEPT
                             !.buf = <<StatusEvent(id, eng.tasks[id].state, TRUE)>>,
                             !.seen = 1,
                             !.closes = 1,
                             !.live = FALSE]),
                     !.err = NoError]
       ELSE
           eng' = [eng EXCEPT !.chans = Append(@, NewSubscriber(id)), !.err = NoError]

\* The subscriber receives one event from its channel.
SubscriberReceive(k) ==
    /\ UNCHANGED mockVars
    /\ Len(eng.chans[k].buf) > 0
    /\ eng' = [eng EXCEPT !.chans[k].recv = Append(@, Head(eng.chans[k].buf)),
                          !.chans[k].buf = Tail(@)]

\* The subscriber's context is canceled.
SubscriberCancel(k) ==
    /\ UNCHANGED mockVars
    /\ ~eng.chans[k].ctxDone
    /\ eng' = [eng EXCEPT !.chans[k].ctxDone = TRUE]

\* The task has had fewer than MaxEvents updates since any of its channels
\* was opened: the processor is followed for that many updates.
FanoutRoom(id) ==
    \A k \in 1..Len(eng.chans) :
        eng.chans[k].id = id => eng.chans[k].seen < MaxEvents

\* The fan-out is explored for the subscribers of one task.
FanoutIDs == {"t1"}

\* A recovered panic is handled as a returned error; the fan-out is explored
\* with the processor returning nil or an error.
FanoutOutcomes == {"nil", "error"}

NextFanout ==
    \/ \E id \in FanoutIDs, msg \in TextMessages :
          Len(eng.chans) < MaxFanoutSubs /\ EngineSendSubscribe(id, msg)
    \/ \E id \in FanoutIDs : Len(eng.chans) < MaxFanoutSubs /\ EngineResubscribe(id)
    \/ \E id \in FanoutIDs : EngineCancel(id)
    \/ \E id \in FanoutIDs, state \in TaskStates : FanoutRoom(id) /\ UpdateStatus(id, state)
    \/ \E id \in FanoutIDs : FanoutRoom(id) /\ AddArtifact(id)
    \/ \E id \in FanoutIDs, outcome \in FanoutOutcomes : ProcessorEnds(id, outcome)
    \/ \E id \in FanoutIDs : EngineFinish(id)
    \/ \E k \in 1..Len(eng.chans) : SubscriberReceive(k)
    \/ \E k \in 1..Len(eng.chans) : SubscriberCancel(k)

SpecFanout == InitEngine /\ [][NextFanout]_vars

\* What went through subscriber channel k: received, then still buffered.
Carried(k) == eng.chans[k].recv \o eng.chans[k].buf

\* The record of the task changes in this step: its state or its artifacts.
RecordChanged(id) ==
    /\ EngineStored(id)
    /\ \/ eng'.tasks[id].state # eng.tasks[id].state
       \/ eng'.tasks[id].artifacts # eng.tasks[id].artifacts

\* The event that describes the change of the record in this step.
EventOfChange(id) ==
    IF eng'.tasks[id].state # eng.tasks[id].state
    THEN StatusEvent(id, eng'.tasks[id].state, IsFinalState(eng'.tasks[id].state))
    ELSE ArtifactEvent(id, eng'.tasks[id].artifacts[Len(eng'.tasks[id].artifacts)])

\* s is a suffix of t.
IsSuffix(s, t) == Len(s) <= Len(t) /\ SubSeq(t, Len(t) - Len(s) + 1, Len(t)) = s

\* What channel c has carried, and whether that is every update the task had
\* since the channel was opened.
CarriedBy(c) == c.recv \o c.buf
MissedNothing(c) == c.seen = Len(CarriedBy(c))

\* The status events and the artifact events of a sequence of events, in order.
StatusEventsOf(events) == SelectSeq(events, LAMBDA e : e.kind = "status")
ArtifactsOf(events) ==
    LET arts == SelectSeq(events, LAMBDA e : e.kind = "artifact")
    IN  [i \in 1..Len(arts) |-> arts[i].state]

\* C14: the record of a task and its subscribers see one sequence of updates.
\* In the step that applies an update to the record, the event of that update
\* is appended to what every live subscriber channel of the task with room
\* has carried, and in no other step does a channel carry anything new.  So
\* a channel carries nothing after a final event; a channel that missed no
\* update carries the updates of the record since it was opened, its last
\* status event being the state of the record and its artifacts the last
\* artifacts of the record; and of two channels of one task that missed no
\* update, the one opened later carries the end of what the other carries.
C14_RecordAndSubscribersOneOrder ==
    [][/\ \A k \in 1..Len(eng.chans) :
            LET c == eng.chans[k]
                after == CarriedBy(eng'.chans[k])
            IN  IF /\ c.live /\ ~c.ctxDone /\ Len(c.buf) < SubscriberCap
                   /\ RecordChanged(c.id)
                THEN after = Append(Carried(k), EventOfChange(c.id))
                ELSE after = Carried(k)
       /\ \A k \in 1..Len(eng'.chans) :
            LET c == eng'.chans[k]
                car == CarriedBy(c)
                sts == StatusEventsOf(car)
            IN  /\ Len(car) <= c.seen
                /\ \A i \in 1..(Len(car) - 1) : ~IsFinal(car[i])
                /\ MissedNothing(c) =>
                       /\ Len(sts) > 0 => sts[Len(sts)].state = eng'.tasks[c.id].state
                       /\ IsSuffix(ArtifactsOf(car), eng'.tasks[c.id].artifacts)
                       /\ \A j \in 1..Len(eng'.chans) :
                              (eng'.chans[j].id = c.id /\ MissedNothing(eng'.chans[j])
                                 /\ Len(CarriedBy(eng'.chans[j])) <= Len(car)) =>
                                  IsSuffix(CarriedBy(eng'.chans[j]), car)]_vars

\* C14 happens: the processor of a task emitted working, an artifact and
\* completed.  One subscriber has received the three events in that order;
\* the buffer of another, who received nothing, was full with the first two
\* when completed was emitted, and its channel is closed without it.
C14_Witness ==
    \E id \in TaskIDs, k1, k2 \in 1..Len(eng.chans) :
        /\ k1 # k2
        /\ eng.chans[k1].id = id
        /\ eng.chans[k2].id = id
        /\ eng.tasks[id].state = TaskStateCompleted
        /\ eng.tasks[id].artifacts = <<"a0">>
        /\ eng.chans[k1].recv = <<StatusEvent(id, TaskStateWorking, FALSE),
                                  ArtifactEvent(id, "a0"),
                                  StatusEvent(id, TaskStateCompleted, TRUE)>>
        /\ eng.chans[k2].recv = << >>
        /\ eng.chans[k2].buf = <<StatusEvent(id, TaskStateWorking, FALSE),
                                 ArtifactEvent(id, "a0")>>
        /\ eng.chans[k2].seen = 3
        /\ eng.chans[k1].closes = 1
        /\ eng.chans[k2].closes = 1

----------------------------------------------------------------------------
(* The A2A client (package client): StreamTask and the goroutine            *)
(* processSSEStream that turns the frames of the response body into events  *)
(* on the channel StreamTask returned.  reader.ReadEvent (package sse) is   *)
(* not part of the sources at hand: it is taken as the generator of the     *)
(* (payload, event type) pairs of the stream, then io.EOF or another error. *)

serverVars == <<tasks, clock, cfg, SendResponse, aliased, subs, ret, eng>>

\* http.StatusOK
StatusOK == 200

\* The capacity of the channel StreamTask makes.
StreamBufferSize == 10

\* protocol.EventTaskStatusUpdate, EventTaskArtifactUpdate, EventClose.
EventTaskStatusUpdate == "task_status_update"
EventTaskArtifactUpdate == "task_artifact_update"
EventClose == "close"

\* The event types a server may put on a frame: the three of the protocol
\* and one that is not of the protocol.
EventTypes == {EventTaskStatusUpdate, EventTaskArtifactUpdate, EventClose, "ping"}

\* The payloads of a frame: none, a JSON object, and bytes that are not JSON.
Payloads == {"", "{...}", "{"}

\* json.Unmarshal of a payload into an event struct succeeds.
Decodes(data) == data = "{...}"

FrameKinds == [type : EventTypes, data : Payloads]

\* The status codes and the Content-Type headers of the responses explored.
\* A header value is its sequence of tokens.
StatusCodes == {StatusOK, 204, 404, 500}
ContentTypes ==
    {<<"text/event-stream">>,
     <<"text/event-stream", ";", "charset=utf-8">>,
     <<"application/json">>,
     <<"application/json", ";", "x=", "text/event-stream">>,
     <<"TEXT/EVENT-STREAM">>,
     << >>}

\* strings.Contains
Contains(s, substr) ==
    \E i \in 0..(Len(s) - Len(substr)) : SubSeq(s, i + 1, i + Len(substr)) = substr

\* The event the reader makes of frame j of the stream.
EventOf(j) == [type |-> cl.frames[j].type, n |-> j]

\* StreamTask that leaves the body of a response with the wrong Content-Type open.
StreamTaskLeak(doErr, status, ctype) ==
    /\ cl.phase = "idle"
    /\ UNCHANGED serverVars
    /\ IF doErr THEN
           cl' = [cl EXCEPT !.phase = "failed", !.retErr = TRUE]
       ELSE IF status # StatusOK THEN
           cl' = [cl EXCEPT !.phase = "failed", !.resp = TRUE, !.status = status,
                            !.ctype = ctype, !.bodyClosed = @ + 1, !.retErr = TRUE]
       ELSE IF ~Contains(ctype, <<"text/event-stream">>) THEN
           cl' = [cl EXCEPT !.phase = "failed", !.resp = TRUE, !.status = status,
                            !.ctype = ctype, !.retErr = TRUE]
       ELSE
           cl' = [cl EXCEPT !.phase = "streaming", !.resp = TRUE, !.status = status,
                            !.ctype = ctype,
                            !.retChan = TRUE, !.readerStarted = TRUE, !.pc = "loop"]

\* StreamTask, from httpClient.Do on: the request failed (no response); the
\* status is not 200 (the body is read and closed); the Content-Type does not
\* contain text/event-stream (the body is closed); otherwise the channel is
\* made and the reader goroutine is started on the response.
StreamTask(doErr, status, ctype) ==
    /\ cl.phase = "idle"
    /\ UNCHANGED serverVars
    /\ IF doErr THEN
           cl' = [cl EXCEPT !.phase = "failed", !.retErr = TRUE]
       ELSE IF status # StatusOK THEN
           cl' = [cl EXCEPT !.phase = "failed", !.resp = TRUE, !.status = status,
                            !.ctype = ctype, !.bodyClosed = @ + 1, !.retErr = TRUE]
       ELSE IF ~Contains(ctype, <<"text/event-stream">>) THEN
           cl' = [cl EXCEPT !.phase = "failed", !.resp = TRUE, !.status = status,
                            !.ctype = ctype, !.bodyClosed = @ + 1, !.retErr = TRUE]
       ELSE
           cl' = [cl EXCEPT !.phase = "streaming", !.resp = TRUE, !.status = status,
                            !.ctype = ctype,
                            !.retChan = TRUE, !.readerStarted = TRUE, !.pc = "loop"]

\* A return of processSSEStream that runs neither of its deferred calls.
ReaderReturnsNoClose(c, why) ==
    [c EXCEPT !.pc = "returned", !.exit = why]

\* A return of processSSEStream: the deferred close(eventsChan) and
\* resp.Body.Close() run.
ReaderReturns(c, why) ==
    [c EXCEPT !.pc = "returned", !.exit = why,
              !.closes = @ + 1, !.bodyClosed = @ + 1]

\* The server writes a frame on the body, while the reader has the body open.
ServerSends(f) ==
    /\ cl.phase = "streaming"
    /\ cl.pc # "returned"
    /\ ~cl.ended
    /\ UNCHANGED serverVars
    /\ cl' = [cl EXCEPT !.frames = Append(@, f)]

\* The body ends: the server closes the stream (io.EOF) or the connection
\* breaks (another read error).
ServerEnds(end) ==
    /\ cl.phase = "streaming"
    /\ cl.pc # "returned"
    /\ ~cl.ended
    /\ UNCHANGED serverVars
    /\ cl' = [cl EXCEPT !.ended = TRUE, !.end = end]

\* The select at the top of the loop: the context is done (return), or the
\* default case, which goes into reader.ReadEvent().
ReaderLoop ==
    /\ cl.pc = "loop"
    /\ UNCHANGED serverVars
    /\ IF cl.ctxDone
       THEN cl' = ReaderReturns(cl, "ctx")
       ELSE cl' = [cl EXCEPT !.pc = "read"]

\* ReadEvent returns and the frame is handled as by a reader that stops at
\* the first frame it cannot decode.
ReaderReadStrict ==
    /\ cl.pc = "read"
    /\ cl.next <= Len(cl.frames) \/ cl.ended
    /\ UNCHANGED serverVars
    /\ IF cl.next > Len(cl.frames) THEN
           cl' = ReaderReturns(cl, cl.end)
       ELSE
           LET f == cl.frames[cl.next]
               c == [cl EXCEPT !.next = @ + 1, !.pc = "loop"]
           IN  IF f.data = "" THEN
                   cl' = c
               ELSE IF f.type = EventClose THEN
                   cl' = ReaderReturns(c, "close")
               ELSE IF f.type \in {EventTaskStatusUpdate, EventTaskArtifactUpdate} THEN
                   IF Decodes(f.data)
                   THEN cl' = [c EXCEPT !.pc = "send", !.pending = EventOf(cl.next)]
                   ELSE cl' = ReaderReturns(c, "error")
               ELSE
                   cl' = c

\* reader.ReadEvent() returns, which it does once a frame or the end of the
\* body has arrived, whether or not the context was done meanwhile, and the
\* loop handles what it returned up to its send: io.EOF or another error
\* (return); the payload is empty (continue); the type is close (return); the
\* payload of a status or artifact frame does not decode (continue) or
\* decodes (go on to the send); the type is unknown (continue).
ReaderRead ==
    /\ cl.pc = "read"
    /\ cl.next <= Len(cl.frames) \/ cl.ended
    /\ UNCHANGED serverVars
    /\ IF cl.next > Len(cl.frames) THEN
           cl' = ReaderReturns(cl, cl.end)
       ELSE
           LET f == cl.frames[cl.next]
               c == [cl EXCEPT !.next = @ + 1, !.pc = "loop"]
           IN  IF f.data = "" THEN
                   cl' = c
               ELSE IF f.type = EventClose THEN
                   cl' = ReaderReturns(c, "close")
               ELSE IF f.type \in {EventTaskStatusUpdate, EventTaskArtifactUpdate} THEN
                   IF Decodes(f.data)
                   THEN cl' = [c EXCEPT !.pc = "send", !.pending = EventOf(cl.next)]
                   ELSE cl' = c
               ELSE
                   cl' = c

\* The request was made with ctx (http.NewRequestWithContext): once ctx is
\* done the transport fails the read of the body that is under way, and
\* ReadEvent returns that error (return).  Nothing in processSSEStream ends
\* the wait itself.
ReadAborted ==
    /\ cl.pc = "read"
    /\ cl.ctxDone
    /\ UNCHANGED serverVars
    /\ cl' = ReaderReturns(cl, "error")

\* A send that puts the event in front of the events that wait in the channel.
ReaderSendFront ==
    /\ cl.pc = "send"
    /\ Len(cl.buf) < StreamBufferSize
    /\ UNCHANGED serverVars
    /\ cl' = [cl EXCEPT !.buf = <<cl.pending>> \o @, !.pc = "loop",
                        !.pending = [none |-> TRUE]]

\* The select at the send: the branch that puts the event in the channel.
ReaderSend ==
    /\ cl.pc = "send"
    /\ Len(cl.buf) < StreamBufferSize
    /\ UNCHANGED serverVars
    /\ cl' = [cl EXCEPT !.buf = Append(@, cl.pending), !.pc = "loop",
                        !.pending = [none |-> TRUE]]

\* The select at the send without its ctx.Done() case: the done context is
\* seen only when the channel has room.
ReaderSendCtxDoneWithRoom ==
    /\ cl.pc = "send"
    /\ cl.ctxDone
    /\ Len(cl.buf) < StreamBufferSize
    /\ UNCHANGED serverVars
    /\ cl' = ReaderReturns(cl, "ctx")

\* The select at the send: the branch that finds the context done.
ReaderSendCtxDone ==
    /\ cl.pc = "send"
    /\ cl.ctxDone
    /\ UNCHANGED serverVars
    /\ cl' = ReaderReturns(cl, "ctx")

\* The caller receives one event from the channel.
ClientReceive ==
    /\ Len(cl.buf) > 0
    /\ UNCHANGED serverVars
    /\ cl' = [cl EXCEPT !.recv = Append(@, Head(cl.buf)), !.buf = Tail(@)]

\* The caller cancels the context it passed to StreamTask.
ClientCancel ==
    /\ cl.phase = "streaming"
    /\ ~cl.ctxDone
    /\ UNCHANGED serverVars
    /\ cl' = [cl EXCEPT !.ctxDone = TRUE]

\* The bodies of the responses to a request: bytes that are not JSON, or a
\* JSON-RPC envelope with its error member (absent, null, an error object, a
\* number) and its result member (absent, null, a task object, a number).
Envelopes ==
    [json : {TRUE},
     error : {"absent", "null", "object", "number"},
     result : {"absent", "null", "task", "number"}]
NotJSON == [json |-> FALSE, error |-> "absent", result |-> "absent"]
Bodies == {NotJSON} \cup Envelopes

\* The status codes of the responses to a request.
RequestStatusCodes == {199, StatusOK, 299, 300, 404}

\* io.ReadAll(resp.Body): the whole body; the body cut short with an error;
\* the whole body with an error.
ReadOutcomes == {"ok", "cut", "late error"}
ReadAll(body, read) == IF read = "cut" THEN NotJSON ELSE body

\* json.Unmarshal(respBodyBytes, response) into jsonrpc.RawResponse: it fails
\* on bytes that are not JSON and on an error member that is not an object;
\* Error is nil for an absent or null member; Result holds the raw bytes of
\* the member (none when absent, the four bytes null for null).
UnmarshalResponse(bytes) ==
    IF ~bytes.json \/ bytes.error = "number"
    THEN [ok |-> FALSE, Error |-> "nil", Result |-> ""]
    ELSE [ok |-> TRUE,
          Error |-> IF bytes.error = "object" THEN "JSONRPCError" ELSE "nil",
          Result |-> CASE bytes.result = "absent" -> ""
                       [] bytes.result = "null" -> "null"
                       [] bytes.result = "task" -> "{task}"
                       [] bytes.result = "number" -> "5"]

\* json.Unmarshal(fullResponse.Result, task) into a fresh taskmanager.Task:
\* null leaves the task as it is, a number is an error.
UnmarshalTask(raw) ==
    CASE raw = "{task}" -> [ok |-> TRUE, task |-> "task"]
      [] raw = "null" -> [ok |-> TRUE, task |-> "empty task"]
      [] OTHER -> [ok |-> FALSE, task |-> "nil"]

\* doRequest that closes the body only where it returns a response.
doRequestLeak(doErr, status, read, body) ==
    IF doErr THEN
        [response |-> [none |-> TRUE], err |-> "http request failed",
         resp |-> FALSE, bodyClosed |-> 0]
    ELSE IF status < 200 \/ status >= 300 THEN
        [response |-> [none |-> TRUE], err |-> "unexpected http status",
         resp |-> TRUE, bodyClosed |-> 0]
    ELSE IF ~UnmarshalResponse(ReadAll(body, read)).ok THEN
        [response |-> [none |-> TRUE], err |-> "failed to decode response body",
         resp |-> TRUE, bodyClosed |-> 0]
    ELSE
        [response |-> UnmarshalResponse(ReadAll(body, read)), err |-> "nil",
         resp |-> TRUE, bodyClosed |-> 1]

\* doRequest: (response, error, the body was obtained, the body was closed).
doRequest(doErr, status, read, body) ==
    IF doErr THEN
        [response |-> [none |-> TRUE], err |-> "http request failed",
         resp |-> FALSE, bodyClosed |-> 0]
    ELSE IF status < 200 \/ status >= 300 THEN
        [response |-> [none |-> TRUE], err |-> "unexpected http status",
         resp |-> TRUE, bodyClosed |-> 1]
    ELSE IF ~UnmarshalResponse(ReadAll(body, read)).ok THEN
        [response |-> [none |-> TRUE], err |-> "failed to decode response body",
         resp |-> TRUE, bodyClosed |-> 1]
    ELSE
        [response |-> UnmarshalResponse(ReadAll(body, read)), err |-> "nil",
         resp |-> TRUE, bodyClosed |-> 1]

\* doRequestAndDecodeTask that looks at the result before the error.
doRequestAndDecodeTaskResultFirst(doErr, status, read, body) ==
    LET r == doRequest(doErr, status, read, body)
    IN  IF r.err # "nil" THEN
            [task |-> "nil", err |-> r.err]
        ELSE IF r.response.Result # "" /\ UnmarshalTask(r.response.Result).ok THEN
            [task |-> UnmarshalTask(r.response.Result).task, err |-> "nil"]
        ELSE IF r.response.Error # "nil" THEN
            [task |-> "nil", err |-> r.response.Error]
        ELSE
            [task |-> "nil", err |-> "rpc response missing required 'result' field"]

\* doRequestAndDecodeTask: (task, error).
doRequestAndDecodeTask(doErr, status, read, body) ==
    LET r == doRequest(doErr, status, read, body)
    IN  IF r.err # "nil" THEN
            [task |-> "nil", err |-> r.err]
        ELSE IF r.response.Error # "nil" THEN
            [task |-> "nil", err |-> r.response.Error]
        ELSE IF r.response.Result = "" THEN
            [task |-> "nil", err |-> "rpc response missing required 'result' field"]
        ELSE IF ~UnmarshalTask(r.response.Result).ok THEN
            [task |-> "nil", err |-> "failed to unmarshal rpc result"]
        ELSE
            [task |-> UnmarshalTask(r.response.Result).task, err |-> "nil"]

\* SendTasks, GetTasks, CancelTasks: the request of the method is sent and
\* what doRequestAndDecodeTask returns is returned, an error wrapped with %w.
Methods == {"SendTasks", "GetTasks", "CancelTasks"}

TaskCall(method, doErr, status, read, body) ==
    /\ cl.phase = "idle"
    /\ UNCHANGED serverVars
    /\ cl' = [cl EXCEPT
               !.phase = "called",
               !.call = [method |-> method, doErr |-> doErr, status |-> status,
                         read |-> read, body |-> body,
                         resp |-> doRequest(doErr, status, read, body).resp,
                         bodyClosed |-> doRequest(doErr, status, read, body).bodyClosed,
                         task |-> doRequestAndDecodeTask(doErr, status, read, body).task,
                         err |-> doRequestAndDecodeTask(doErr, status, read, body).err]]

InitClient == Init /\ cfg = DefaultConfig /\ SendResponse = NoTask

NextClient ==
    \/ /\ cl.phase = "idle"
       /\ \E doErr \in BOOLEAN, status \in StatusCodes, ctype \in ContentTypes :
             StreamTask(doErr, status, ctype)
    \/ /\ cl.phase = "idle"
       /\ \E method \in Methods, doErr \in BOOLEAN, status \in RequestStatusCodes,
             read \in ReadOutcomes, body \in Bodies :
             TaskCall(method, doErr, status, read, body)
    \/ /\ Len(cl.frames) < MaxFrames
       /\ \E f \in FrameKinds : ServerSends(f)
    \/ \E end \in {"EOF", "error"} : ServerEnds(end)
    \/ ReaderLoop
    \/ ReaderRead
    \/ ReadAborted
    \/ ReaderSend
    \/ ReaderSendCtxDone
    \/ ClientReceive
    \/ ClientCancel

SpecClient == InitClient /\ [][NextClient]_vars

\* What the reader has put in the channel: received, then still buffered.
Sent == cl.recv \o cl.buf

\* A frame the reader makes an event of.
WellFormed(f) ==
    /\ f.type \in {EventTaskStatusUpdate, EventTaskArtifactUpdate}
    /\ Decodes(f.data)

\* A frame with a payload the reader skips: its payload does not decode, or
\* its type is not one of the protocol.
Skipped(f) ==
    /\ f.data # ""
    /\ \/ f.type \in {EventTaskStatusUpdate, EventTaskArtifactUpdate} /\ ~Decodes(f.data)
       \/ f.type \notin {EventTaskStatusUpdate, EventTaskArtifactUpdate, EventClose}

\* C17: when the response StreamTask obtained has a status other than 200 or
\* a Content-Type that does not contain text/event-stream, StreamTask has
\* returned an error and no channel, the body of the response was closed
\* (once), and no reader was started, then or later.
C17_BadResponseFailsClosed ==
    (/\ cl.phase # "idle"
     /\ cl.resp
     /\ (cl.status # StatusOK \/ ~Contains(cl.ctype, <<"text/event-stream">>))) =>
        /\ cl.retErr
        /\ ~cl.retChan
        /\ ~cl.readerStarted
        /\ cl.pc = "none"
        /\ cl.closes = 0
        /\ cl.bodyClosed = 1

\* C17 happens: a response with status 200 and a Content-Type that is not an
\* event stream was refused.
C17_Witness ==
    /\ cl.phase = "failed"
    /\ cl.resp
    /\ cl.status = StatusOK
    /\ cl.ctype = <<"application/json">>
    /\ cl.retErr
    /\ cl.bodyClosed = 1

\* C18: the channel of a successful StreamTask is closed once, by the reader
\* when it returns and not before, whatever made it return (end of stream, a
\* close frame, a read error, the context done), and once it is closed
\* nothing more is put in it.
C18_ClosedOnceByReader ==
    [][/\ cl'.closes <= 1
       /\ (cl'.closes = 1) <=> (cl'.pc = "returned")
       /\ (cl'.pc = "returned") <=> (cl'.exit \in {"EOF", "error", "close", "ctx"})
       /\ (cl.closes = 1) => (cl'.recv \o cl'.buf = Sent)]_vars

\* C18 happens: the reader returned on the done context while it waited to
\* send, after the caller had received an event, and the channel is closed.
C18_Witness ==
    /\ cl.pc = "returned"
    /\ cl.exit = "ctx"
    /\ cl.pending # [none |-> TRUE]
    /\ Len(cl.recv) >= 1
    /\ cl.closes = 1

\* C19: once the reader has read a frame of type close, whatever its payload,
\* it has returned and the channel is closed, and no event of a later frame
\* is in the channel or on its way to it.
C19_CloseFrameStopsReader ==
    \A k \in 1..(cl.next - 1) :
        (k <= Len(cl.frames) /\ cl.frames[k].type = EventClose) =>
            /\ cl.pc = "returned"
            /\ cl.closes = 1
            /\ \A e \in 1..Len(Sent) : Sent[e].n < k
            /\ cl.pending = [none |-> TRUE]

\* C20: while the context is not done, every well-formed status or artifact
\* frame the reader has read is in the channel (or is the one being sent),
\* also when frames it skipped came before it, and the reader has returned
\* only at the end of the stream or on a close frame, never on a skipped one.
C20_SkipsKeepStreamOpen ==
    ~cl.ctxDone =>
        /\ \A j \in 1..(cl.next - 1) :
              (j <= Len(cl.frames) /\ WellFormed(cl.frames[j])) =>
                  \/ \E e \in 1..Len(Sent) : Sent[e] = EventOf(j)
                  \/ cl.pending = EventOf(j)
        /\ cl.closes >= 1 =>
              \/ cl.next > Len(cl.frames) /\ cl.ended
              \/ cl.frames[cl.next - 1].type = EventClose

\* C20 happens: the reader skipped a status frame that does not decode and a
\* frame of unknown type, and the caller then received the event of the
\* well-formed frame that followed, on an open channel.
C20_Witness ==
    /\ cl.next = 4
    /\ cl.frames[1].type = EventTaskStatusUpdate /\ ~Decodes(cl.frames[1].data)
    /\ Skipped(cl.frames[1])
    /\ cl.frames[2].type = "ping" /\ Skipped(cl.frames[2])
    /\ WellFormed(cl.frames[3])
    /\ cl.recv = <<EventOf(3)>>
    /\ cl.closes = 0
    /\ ~cl.ctxDone

\* The events of the well-formed frames among the first k frames of the
\* stream, in the order of the frames.
RECURSIVE WellFormedEvents(_)
WellFormedEvents(k) ==
    IF k = 0 THEN << >>
    ELSE IF WellFormed(cl.frames[k])
         THEN Append(WellFormedEvents(k - 1), EventOf(k))
         ELSE WellFormedEvents(k - 1)

\* C26: the events put in the channel are events of well-formed status and
\* artifact frames the reader has read, in the order of the frames, each
\* once; and while the context is not done none is left out: the events in
\* the channel, with the one being sent, are the events of all the
\* well-formed frames read so far, and the reader has stopped reading only
\* at the end of the stream or at a close frame.
C26_DeliveredInFrameOrder ==
    LET read == WellFormedEvents(cl.next - 1)
        out == IF cl.pending = [none |-> TRUE] THEN Sent ELSE Append(Sent, cl.pending)
    IN  /\ cl.next - 1 <= Len(cl.frames)
        /\ IsPrefix(Sent, read)
        /\ \A d, e \in 1..Len(Sent) : d < e => Sent[d].n < Sent[e].n
        /\ ~cl.ctxDone =>
               /\ out = read
               /\ cl.pc = "returned" =>
                      \/ cl.next - 1 = Len(cl.frames) /\ cl.ended
                      \/ cl.frames[cl.next - 1].type = EventClose

\* C26 happens: of three frames the second was skipped, and the caller has
\* received the events of the first and the third, in that order, while the
\* context is not done.
C26_Witness ==
    /\ Len(cl.frames) = 3
    /\ WellFormed(cl.frames[1]) /\ Skipped(cl.frames[2]) /\ WellFormed(cl.frames[3])
    /\ cl.frames[1].type = EventTaskArtifactUpdate
    /\ cl.frames[3].type = EventTaskStatusUpdate
    /\ cl.recv = <<EventOf(1), EventOf(3)>>
    /\ cl.pc = "returned"
    /\ ~cl.ctxDone

----------------------------------------------------------------------------
(* The reader under a scheduler that lets a goroutine that can run take its *)
(* step, on streams long enough to fill the channel.                        *)

\* A stream of well-formed status frames that is longer than the channel.
LongStreamFrame == [type |-> EventTaskStatusUpdate, data |-> "{...}"]
LongStreamLen == StreamBufferSize + 2

\* The steps of the goroutine processSSEStream.
ReaderSteps == ReaderLoop \/ ReaderRead \/ ReaderSend \/ ReaderSendCtxDone

NextClientLong ==
    \/ /\ cl.phase = "idle"
       /\ \E doErr \in BOOLEAN, status \in StatusCodes, ctype \in ContentTypes :
             StreamTask(doErr, status, ctype)
    \/ /\ Len(cl.frames) < LongStreamLen
       /\ ServerSends(LongStreamFrame)
    \/ \E end \in {"EOF", "error"} : ServerEnds(end)
    \/ ReaderLoop
    \/ ReaderRead
    \/ ReadAborted
    \/ ReaderSend
    \/ ReaderSendCtxDone
    \/ ClientReceive
    \/ ClientCancel

\* The goroutine is scheduled whenever one of its steps can be taken, and the
\* transport does fail a read under way once the context of the request is
\* done; the server is free to fall silent, and the caller to stop receiving
\* and never to cancel.
SpecClientLive ==
    InitClient /\ [][NextClientLong]_vars /\ WF_vars(ReaderSteps) /\ WF_vars(ReadAborted)

\* C21: once the context of a stream is done, the reader returns and the
\* channel is closed, whatever the reader was doing: also when it waits at
\* the send with the channel full and the caller receives no more.
C21_CancelStopsReader ==
    (cl.phase = "streaming" /\ cl.ctxDone) ~> (cl.pc = "returned" /\ cl.closes = 1)

\* C21 happens: the reader returned on the done context from the send it was
\* waiting at, with the channel full and nothing received by the caller.
C21_Witness ==
    /\ cl.pc = "returned"
    /\ cl.exit = "ctx"
    /\ cl.closes = 1
    /\ Len(cl.buf) = StreamBufferSize
    /\ cl.recv = << >>
    /\ cl.pending # [none |-> TRUE]

\* The response of the call made was decoded into a JSON-RPC envelope.
CallDecoded ==
    /\ cl.phase = "called"
    /\ doRequest(cl.call.doErr, cl.call.status, cl.call.read, cl.call.body).err = "nil"

\* C22: SendTasks, GetTasks and CancelTasks return a task or an error, never
\* both and never neither.  For a response that was decoded: an error object
\* gives that error and no task, also when a result is there; a task as the
\* result and no error gives the task and no error; neither gives an error.
C22_TaskOrErrorNeverBoth ==
    cl.phase = "called" =>
        /\ (cl.call.task = "nil") # (cl.call.err = "nil")
        /\ (CallDecoded /\ cl.call.body.error = "object") =>
              (cl.call.err = "JSONRPCError" /\ cl.call.task = "nil")
        /\ (CallDecoded /\ cl.call.body.error # "object" /\ cl.call.body.result = "task") =>
              (cl.call.task = "task" /\ cl.call.err = "nil")
        /\ (CallDecoded /\ cl.call.body.error # "object" /\ cl.call.body.result = "absent") =>
              (cl.call.task = "nil" /\ cl.call.err # "nil")
        /\ ~CallDecoded => cl.call.task = "nil"

\* C22 happens: CancelTasks got a 2xx response with an error object and a
\* task as the result, and returned the JSON-RPC error and no task.
C22_Witness ==
    /\ cl.phase = "called"
    /\ cl.call.method = "CancelTasks"
    /\ cl.call.status = 299
    /\ cl.call.body \in Envelopes
    /\ cl.call.body.error = "object"
    /\ cl.call.body.result = "task"
    /\ cl.call.err = "JSONRPCError"
    /\ cl.call.task = "nil"

\* C25: every response body the client obtains is closed on every exit path.
\* After a request method has returned, the body of its response, if it got
\* one, was closed once; after StreamTask has failed on a response, the body
\* was closed once; after StreamTask has succeeded, the body is open only
\* while the reader it started runs, and the reader closes it once when it
\* returns, whatever the exit.
C25_BodyClosedOnEveryExit ==
    /\ cl.phase = "called" =>
           cl.call.bodyClosed = (IF cl.call.resp THEN 1 ELSE 0)
    /\ cl.phase = "failed" =>
           cl.bodyClosed = (IF cl.resp THEN 1 ELSE 0)
    /\ cl.phase = "streaming" =>
           /\ cl.resp /\ cl.readerStarted
           /\ cl.pc \in {"loop", "read", "send"} => cl.bodyClosed = 0
           /\ cl.pc = "returned" => cl.bodyClosed = 1
           /\ cl.pc \in {"loop", "read", "send", "returned"}

\* C25 happens: doRequest got a response with a good status whose body did
\* not decode, and returned the error with the body closed.
C25_Witness ==
    /\ cl.phase = "called"
    /\ cl.call.resp
    /\ cl.call.status = StatusOK
    /\ cl.call.err = "failed to decode response body"
    /\ cl.call.bodyClosed = 1
====
